---- MODULE Spec2Model ----
(***************************************************************************)
(* Query pagination core of the GraphQL compiler: pagination planner,     *)
(* parameter generator, query parameterizer and paginate_query.           *)
(*                                                                         *)
(* The package graphql_compiler/query_pagination is exercised by          *)
(* tests/snapshot_tests/test_query_pagination.py; the fixtures and the    *)
(* expected values below are transcribed from those tests, the operations *)
(* are modelled from the specification and pinned to the tests' expected  *)
(* values wherever a test decides the behaviour.                          *)
(***************************************************************************)
EXTENDS Integers, Sequences, FiniteSets, TLC

(***************************************************************************)
(* Bounds of the model.                                                    *)
(***************************************************************************)
\* integer field values of the enumerated statistics lie in 0..MaxVal
MaxVal == 1
\* longest enumerated quantile sample sequence
MaxSamples == 16
\* largest number_of_pages / number_of_subdivisions drawn by the caller
MaxPages == 4
\* largest cardinality estimate drawn, in units of 1/CardDen rows
MaxCard == 9
\* the cardinality estimate is a real number: modelled in units of 1/CardDen
CardDen == 2
\* largest desired_page_row_count drawn by the caller
MaxPageRows == 2
\* successive paginate_query calls of one caller
MaxCalls == 2

(***************************************************************************)
(* Generic helpers.                                                        *)
(***************************************************************************)
Range(s) == {s[i] : i \in DOMAIN s}

Max2(a, b) == IF a >= b THEN a ELSE b

\* ceil(a / b) for a >= 0, b > 0
CeilDiv(a, b) == (a + b - 1) \div b

\* list(range(lo, hi + 1))
SeqOfRange(lo, hi) == [i \in 1..(hi - lo + 1) |-> lo + i - 1]

\* [v for _ in range(n)]
Repeat(v, n) == [i \in 1..n |-> v]

(***************************************************************************)
(* Value-space arithmetic: UUID values.  A UUID is handled by the          *)
(* database as its canonical text (lowercase hexadecimal, 8-4-4-4-12       *)
(* dashed) and by the arithmetic as an integer of [0, 2^128].  The         *)
(* integers of the arithmetic are exact: a sequence of BigLimbs limbs of   *)
(* 16 bits, most significant first, wide enough for 2^128 times a number   *)
(* of subdivisions.                                                        *)
(***************************************************************************)
\* Body applied to the value of an expression, the expression evaluated once
\* (Python evaluates an argument before the call)
Strict(value, Body(_)) == CHOOSE result \in {Body(v) : v \in {value}} : TRUE

\* Body applied to the values of two expressions
Strict2(value1, value2, Body(_, _)) ==
    CHOOSE result \in {Body(v, w) : v \in {value1}, w \in {value2}} : TRUE

\* hexadecimal digits of a UUID
UuidHexDigits == 32

\* 2^16, the base of a limb (four hexadecimal digits)
LimbBase == 65536

\* limbs of a UUID, and of a number of the arithmetic (one limb more)
UuidLimbs == UuidHexDigits \div 4

BigLimbs == UuidLimbs + 1

HexChars == <<"0", "1", "2", "3", "4", "5", "6", "7",
              "8", "9", "a", "b", "c", "d", "e", "f">>

HexValue(c) == (CHOOSE i \in 1..16 : HexChars[i] = c) - 1

\* positions of the dashes in the canonical text
DashPositions == {9, 14, 19, 24}

\* 2^128
UuidSpaceSize == [i \in 1..BigLimbs |-> IF i = 1 THEN 1 ELSE 0]

MIN_UUID_INT == [i \in 1..BigLimbs |-> 0]

RECURSIVE BigLessRec(_, _, _)
\* a < b, comparing from position i on: the order of two sequences of
\* integers of one length
BigLessRec(a, b, i) ==
    IF i > Len(a) THEN FALSE
    ELSE IF a[i] # b[i] THEN a[i] < b[i]
    ELSE BigLessRec(a, b, i + 1)

\* a < b
BigLess(a, b) == Strict2(a, b, LAMBDA x, y : BigLessRec(x, y, 1))

RECURSIVE BigCarry(_, _, _)
\* the carry into limb i of a + b
BigCarry(a, b, i) ==
    IF i = BigLimbs THEN 0
    ELSE (a[i + 1] + b[i + 1] + BigCarry(a, b, i + 1)) \div LimbBase

\* a + b
BigAdd(a, b) ==
    Strict2(a, b, LAMBDA x, y :
        [i \in 1..BigLimbs |-> (x[i] + y[i] + BigCarry(x, y, i)) % LimbBase])

RECURSIVE BigBorrow(_, _, _)
\* the borrow from limb i of a - b
BigBorrow(a, b, i) ==
    IF i = BigLimbs THEN 0
    ELSE IF a[i + 1] - b[i + 1] - BigBorrow(a, b, i + 1) < 0 THEN 1 ELSE 0

\* a - b for a >= b
BigSub(a, b) ==
    Strict2(a, b, LAMBDA x, y :
        [i \in 1..BigLimbs |->
            (x[i] - y[i] - BigBorrow(x, y, i) + LimbBase) % LimbBase])

RECURSIVE BigMulCarry(_, _, _)
\* the carry into limb i of a * m
BigMulCarry(a, m, i) ==
    IF i = BigLimbs THEN 0
    ELSE (a[i + 1] * m + BigMulCarry(a, m, i + 1)) \div LimbBase

\* a * m for a small natural m
BigMulSmall(a, m) ==
    Strict(a, LAMBDA x :
        [i \in 1..BigLimbs |-> (x[i] * m + BigMulCarry(x, m, i)) % LimbBase])

RECURSIVE BigDivRem(_, _, _)
\* the remainder of the long division a // n after limb i
BigDivRem(a, n, i) ==
    IF i = 0 THEN 0 ELSE (BigDivRem(a, n, i - 1) * LimbBase + a[i]) % n

\* a // n for a small positive n (long division, floor)
BigDivSmall(a, n) ==
    Strict(a, LAMBDA x :
        [i \in 1..BigLimbs |-> (BigDivRem(x, n, i - 1) * LimbBase + x[i]) \div n])

\* the hexadecimal digits of a number below 2^128, most significant first
HexDigitsOf(number) ==
    Strict(number, LAMBDA n :
        [k \in 1..UuidHexDigits |->
            LET limb == n[1 + (k + 3) \div 4]
                shift == 3 - ((k - 1) % 4)
            IN  (limb \div (16 ^ shift)) % 16])

\* the canonical text of a UUID integer: lowercase, dashed 8-4-4-4-12
to_canonical_text(number) ==
    Strict(HexDigitsOf(number), LAMBDA d :
        LET Hex(lo, hi) == [i \in 1..(hi - lo + 1) |-> HexChars[d[lo + i - 1] + 1]]
        IN  Hex(1, 8) \o <<"-">> \o Hex(9, 12) \o <<"-">> \o Hex(13, 16)
                \o <<"-">> \o Hex(17, 20) \o <<"-">> \o Hex(21, 32))

\* the integer of a canonical UUID text
from_canonical_text(text) ==
    Strict(SelectSeq([i \in 1..Len(text) |-> <<i, text[i]>>],
                     LAMBDA p : p[1] \notin DashPositions),
           LAMBDA kept :
        LET digit(k) == HexValue(kept[k][2])
        IN  [i \in 1..BigLimbs |->
                IF i = 1 THEN 0
                ELSE LET k == 4 * (i - 2)
                     IN  digit(k + 1) * 4096 + digit(k + 2) * 256
                             + digit(k + 3) * 16 + digit(k + 4)])

(***************************************************************************)
(* Value-space arithmetic: ordering.  Int values are integers, UUID values *)
(* their canonical text, Datetime values the tuple <<year, month, day,     *)
(* hour, minute, second, microsecond>>.                                    *)
(***************************************************************************)
datetime(year, month, day) == <<year, month, day, 0, 0, 0, 0>>

\* a < b in the natural order of the field's type
less_than(field_type, a, b) ==
    CASE field_type = "Int" -> a < b
      [] field_type = "UUID" -> BigLess(from_canonical_text(a), from_canonical_text(b))
      [] field_type = "Datetime" -> BigLessRec(a, b, 1)

(***************************************************************************)
(* Schema of the test fixtures (generate_schema_graph): the type of every  *)
(* property field used by the tests, and the vertex type an edge leads to. *)
(***************************************************************************)
FieldType(field_name) ==
    CASE field_name = "uuid" -> "UUID"
      [] field_name = "limbs" -> "Int"
      [] field_name = "event_date" -> "Datetime"
      [] OTHER -> "String"

\* out_Entity_Related leads from an Entity to an Entity
EdgeTarget(edge_name) == "Entity"

(***************************************************************************)
(* Parameter names.  A name "<base>_<index>" is the pair <<base, index>>;  *)
(* a name without a numeric suffix carries the index -1.                   *)
(***************************************************************************)
PagedParamBase == "__paged_param"

ParamName(base, index) == <<base, index>>

UserParam(name) == <<name, -1>>

\* "__paged_param_<k>"
PagedParam(k) == ParamName(PagedParamBase, k)

(***************************************************************************)
(* Query AST.                                                              *)
(***************************************************************************)
\* @filter(op_name: op, value: ["$param"])
FilterDirective(op, param) ==
    [name |-> "filter", op_name |-> op, value |-> <<param>>, out_name |-> ""]

\* @output(out_name: out)
OutputDirective(out) ==
    [name |-> "output", op_name |-> "", value |-> <<>>, out_name |-> out]

FieldNode(field_name, directives, selections) ==
    [kind |-> "Field", name |-> field_name, directives |-> directives,
     selections |-> selections]

\* ... on <type_condition> { selections }
InlineFragmentNode(type_condition, selections) ==
    [kind |-> "InlineFragment", name |-> type_condition, directives |-> <<>>,
     selections |-> selections]

IsFilter(directive) == directive.name = "filter"

IsOutput(directive) == directive.name = "output"

\* the @filter directives of a selection, in order
FiltersOf(node) == SelectSeq(node.directives, IsFilter)

\* the @output directives of a selection, in order
OutputsOf(node) == SelectSeq(node.directives, IsOutput)

RECURSIVE Placeholders(_)
\* the $-placeholders a query references
Placeholders(node) ==
    {d.value[1] : d \in {x \in Range(node.directives) : IsFilter(x)}}
        \cup UNION {Placeholders(node.selections[i]) : i \in DOMAIN node.selections}

RECURSIVE AllFilters(_)
\* every @filter of a query with the field carrying it
AllFilters(node) ==
    {<<node.name, d>> : d \in {x \in Range(node.directives) : IsFilter(x)}}
        \cup UNION {AllFilters(node.selections[i]) : i \in DOMAIN node.selections}

RECURSIVE AllOutputs(_)
\* every @output of a query with the field carrying it
AllOutputs(node) ==
    {<<node.name, d>> : d \in {x \in Range(node.directives) : IsOutput(x)}}
        \cup UNION {AllOutputs(node.selections[i]) : i \in DOMAIN node.selections}

\* ASTWithParameters / QueryStringWithParameters
ASTWithParameters(query_ast, parameters) ==
    [query_ast |-> query_ast, parameters |-> parameters]

\* the parameter map without bindings
NoParameters == [k \in {} |-> 0]

\* dict(parameters); dict[key] = value
WithBinding(parameters, key, value) ==
    [k \in DOMAIN parameters \cup {key} |->
        IF k = key THEN value ELSE parameters[k]]

\* the parameter map restricted to the given keys
Restrict(parameters, keys) == [k \in DOMAIN parameters \cap keys |-> parameters[k]]

(***************************************************************************)
(* Execution of a root-vertex query by the database: the rows of the root  *)
(* vertex that pass every filter of every property field.                  *)
(***************************************************************************)
FilterHolds(field_name, op_name, value, bound) ==
    CASE op_name = "<" -> less_than(FieldType(field_name), value, bound)
      [] op_name = ">=" -> ~less_than(FieldType(field_name), value, bound)
      [] op_name = "!=" -> value # bound
      [] op_name = "=" -> value = bound

\* whether the query selects the row (a record of the root vertex's fields)
Selects(query, row) ==
    \A i \in DOMAIN query.query_ast.selections :
        LET field == query.query_ast.selections[i]
        IN  \A j \in DOMAIN field.directives :
                IsFilter(field.directives[j]) =>
                    FilterHolds(field.name, field.directives[j].op_name,
                                row[field.name],
                                query.parameters[field.directives[j].value[1]])

(***************************************************************************)
(* Query parameterizer (query_pagination/query_parameterizer.py).          *)
(***************************************************************************)
RECURSIVE generate_new_name_from(_, _, _)
generate_new_name_from(base_name, taken_names, index) ==
    IF ParamName(base_name, index) \in taken_names
    THEN generate_new_name_from(base_name, taken_names, index + 1)
    ELSE ParamName(base_name, index)

\* the name numbered by the count of the taken names of the base
generate_new_name_by_count(base_name, taken_names) ==
    ParamName(base_name, Cardinality({name \in taken_names : name[1] = base_name}))

\* the first name "<base_name>_<index>", index = 0, 1, ..., that is not taken
generate_new_name(base_name, taken_names) ==
    generate_new_name_from(base_name, taken_names, 0)

\* every filter of the pagination field taken for replaced
is_filter_replaced_whatever_operation(directive, directive_to_add) ==
    IsFilter(directive)

\* an existing filter of the pagination field that the added filter stands
\* in for: a filter with the same operation
is_filter_replaced(directive, directive_to_add) ==
    IsFilter(directive) /\ directive.op_name = directive_to_add.op_name

\* the pagination field left with the added filter alone
add_filter_to_field_alone(field, directive_to_add) ==
    [field EXCEPT !.directives = <<directive_to_add>>]

\* the pagination field with the filter added after all it carries
add_filter_to_field_appending(field, directive_to_add) ==
    [field EXCEPT !.directives = field.directives \o <<directive_to_add>>]

\* the pagination field with the filter added: the filters of the same
\* operation are removed, the new filter comes last
add_filter_to_field(field, directive_to_add) ==
    [field EXCEPT !.directives =
        SelectSeq(field.directives,
                  LAMBDA d : ~is_filter_replaced(d, directive_to_add))
            \o <<directive_to_add>>]

\* the vertex with the filter on its pagination field; a vertex that does
\* not select the field gets it as its first selection
add_pagination_filter_at_node(node, pagination_field, directive_to_add) ==
    IF \E i \in DOMAIN node.selections : node.selections[i].name = pagination_field
    THEN [node EXCEPT !.selections =
            [i \in DOMAIN node.selections |->
                IF node.selections[i].name = pagination_field
                THEN add_filter_to_field(node.selections[i], directive_to_add)
                ELSE node.selections[i]]]
    ELSE [node EXCEPT !.selections =
            <<FieldNode(pagination_field, <<directive_to_add>>, <<>>)>>
                \o node.selections]

RECURSIVE add_pagination_filter_recursively(_, _, _, _, _)
\* walk query_path from the root vertex (query_path[1]) to the target
\* vertex, stepping through an inline type refinement where there is one
add_pagination_filter_recursively(node, query_path, path_index, pagination_field, directive_to_add) ==
    IF Len(node.selections) > 0 /\ node.selections[1].kind = "InlineFragment"
    THEN [node EXCEPT !.selections =
            <<add_pagination_filter_recursively(
                  node.selections[1], query_path, path_index,
                  pagination_field, directive_to_add)>>
                \o Tail(node.selections)]
    ELSE IF path_index = Len(query_path)
    THEN add_pagination_filter_at_node(node, pagination_field, directive_to_add)
    ELSE [node EXCEPT !.selections =
            [i \in DOMAIN node.selections |->
                IF node.selections[i].name = query_path[path_index + 1]
                THEN add_pagination_filter_recursively(
                         node.selections[i], query_path, path_index + 1,
                         pagination_field, directive_to_add)
                ELSE node.selections[i]]]

VertexPartitionPlan(query_path, pagination_field, number_of_subdivisions) ==
    [query_path |-> query_path, pagination_field |-> pagination_field,
     number_of_subdivisions |-> number_of_subdivisions]

\* one query of the pair, given every binding
parameterized_page_unrestricted(query, vertex_partition, op_name, param_name, page_parameters) ==
    ASTWithParameters(
        add_pagination_filter_recursively(
            query.query_ast, vertex_partition.query_path, 1,
            vertex_partition.pagination_field,
            FilterDirective(op_name, param_name)),
        page_parameters)

\* one query of the pair: the input with the filter `op_name $param_name`
\* on the pagination field, and the bindings its placeholders still use
parameterized_page(query, vertex_partition, op_name, param_name, page_parameters) ==
    Strict(add_pagination_filter_recursively(
               query.query_ast, vertex_partition.query_path, 1,
               vertex_partition.pagination_field,
               FilterDirective(op_name, param_name)),
           LAMBDA ast :
        LET removed == Placeholders(query.query_ast) \ Placeholders(ast)
        IN  ASTWithParameters(ast,
                Restrict(page_parameters, DOMAIN page_parameters \ removed)))

\* the pair (next_page, remainder) for the threshold parameter_value
generate_parameterized_queries(query, vertex_partition, parameter_value) ==
    Strict(generate_new_name(PagedParamBase, DOMAIN query.parameters),
           LAMBDA param_name :
        Strict(WithBinding(query.parameters, param_name, parameter_value),
               LAMBDA page_parameters :
            [next_page |-> parameterized_page(query, vertex_partition, "<",
                                              param_name, page_parameters),
             remainder |-> parameterized_page(query, vertex_partition, ">=",
                                              param_name, page_parameters)]))

(***************************************************************************)
(* Schema information and statistics (QueryPlanningSchemaInfo,             *)
(* LocalStatistics).                                                       *)
(***************************************************************************)
\* the vertex classes of the test schema that the tests query
VertexClassNames == {"Animal", "Species", "Event", "Entity"}

\* LocalStatistics(class_counts, field_quantiles = quantiles)
LocalStatistics(class_counts, quantiles) ==
    [class_counts |-> class_counts, field_quantiles |-> quantiles]

\* field_quantiles = {(vertex_type, field_name): samples}
QuantilesOf(vertex_type, field_name, samples) ==
    [k \in {<<vertex_type, field_name>>} |-> samples]

\* statistics without field_quantiles
NoQuantiles == [k \in {} |-> <<>>]

QueryPlanningSchemaInfo(statistics, pagination_keys, uuid4_fields) ==
    [statistics |-> statistics, pagination_keys |-> pagination_keys,
     uuid4_fields |-> uuid4_fields]

\* statistics.get_field_quantiles: the samples recorded for the field,
\* none recorded reads as no sample
get_field_quantiles(statistics, vertex_type, field_name) ==
    IF <<vertex_type, field_name>> \in DOMAIN statistics.field_quantiles
    THEN statistics.field_quantiles[<<vertex_type, field_name>>]
    ELSE <<>>

(***************************************************************************)
(* Pagination planner (query_pagination/pagination_planning.py).           *)
(***************************************************************************)
InsufficientQuantiles(vertex_type, field_name, have, need) ==
    [kind |-> "InsufficientQuantiles", vertex_type |-> vertex_type,
     field |-> field_name, have |-> have, need |-> need]

\* samples wanted per page of the plan
ideal_min_num_quantiles_per_page == 5

\* two samples per page and one
minimal_quantile_resolution(number_of_pages) == 2 * number_of_pages + 1

\* the number of quantile samples the planner asks for
ideal_quantile_resolution(number_of_pages) ==
    ideal_min_num_quantiles_per_page * number_of_pages + 1

\* the planner that does not tell the caller why it cannot paginate
plan_root_vertex_silently(schema_info, root_type, number_of_pages) ==
    LET pagination_field == schema_info.pagination_keys[root_type]
        quantiles == get_field_quantiles(schema_info.statistics, root_type,
                                         pagination_field)
    IN  IF pagination_field \in schema_info.uuid4_fields[root_type]
           \/ Len(quantiles) >= ideal_quantile_resolution(number_of_pages)
        THEN [plan |-> <<VertexPartitionPlan(<<root_type>>, pagination_field,
                                             number_of_pages)>>,
              advisories |-> <<>>]
        ELSE [plan |-> <<>>, advisories |-> <<>>]

\* (plan, advisories) for cutting the root vertex into number_of_pages
\* subdivisions on its pagination key
plan_root_vertex(schema_info, root_type, number_of_pages) ==
    LET pagination_field == schema_info.pagination_keys[root_type]
        quantiles == get_field_quantiles(schema_info.statistics, root_type,
                                         pagination_field)
        need == ideal_quantile_resolution(number_of_pages)
        root_plan == <<VertexPartitionPlan(<<root_type>>, pagination_field,
                                           number_of_pages)>>
    IN  IF pagination_field \in schema_info.uuid4_fields[root_type]
        THEN [plan |-> root_plan, advisories |-> <<>>]
        ELSE IF Len(quantiles) >= need
        THEN [plan |-> root_plan, advisories |-> <<>>]
        ELSE [plan |-> <<>>,
              advisories |-> <<InsufficientQuantiles(root_type, pagination_field,
                                                     Len(quantiles), need)>>]

\* the planner without the case of a single page
get_pagination_plan_always_planning(schema_info, query_ast, number_of_pages) ==
    plan_root_vertex(schema_info, query_ast.name, number_of_pages)

\* (plan, advisories) for paginating the query into number_of_pages pages
get_pagination_plan(schema_info, query_ast, number_of_pages) ==
    IF number_of_pages = 1
    THEN [plan |-> <<>>, advisories |-> <<>>]
    ELSE plan_root_vertex(schema_info, query_ast.name, number_of_pages)

(***************************************************************************)
(* Parameter generator (query_pagination/parameter_generator.py).          *)
(***************************************************************************)
RECURSIVE get_vertex_at_path(_, _, _, _)
\* the vertex query_path leads to, with its type: the type an inline type
\* refinement names, else the type the edge leads to
get_vertex_at_path(node, vertex_type, query_path, path_index) ==
    IF Len(node.selections) > 0 /\ node.selections[1].kind = "InlineFragment"
    THEN get_vertex_at_path(node.selections[1], node.selections[1].name,
                            query_path, path_index)
    ELSE IF path_index = Len(query_path)
    THEN [node |-> node, vertex_type |-> vertex_type]
    ELSE LET child == node.selections[
                 CHOOSE i \in DOMAIN node.selections :
                     node.selections[i].name = query_path[path_index + 1]]
         IN  get_vertex_at_path(child, EdgeTarget(child.name), query_path,
                                path_index + 1)

\* the values the bound parameters give the filters `op_name` of the field
filter_values(node, field_name, op_name, parameters) ==
    LET fields == SelectSeq(node.selections, LAMBDA f : f.name = field_name)
        filters == IF fields = <<>> THEN <<>>
                   ELSE SelectSeq(FiltersOf(fields[1]),
                            LAMBDA d : d.op_name = op_name
                                       /\ d.value[1] \in DOMAIN parameters)
    IN  [i \in 1..Len(filters) |-> parameters[filters[i].value[1]]]

RECURSIVE strongest(_, _, _)
\* the largest (keep_larger) or smallest of a non-empty sequence of values
strongest(field_type, values, keep_larger) ==
    IF Len(values) = 1 THEN values[1]
    ELSE Strict(strongest(field_type, Tail(values), keep_larger), LAMBDA rest :
             LET head_smaller == less_than(field_type, values[1], rest)
             IN  IF head_smaller = keep_larger THEN rest ELSE values[1])

\* the interval of a field taken for unbounded whatever its filters
get_field_value_interval_unbounded(node, field_name, parameters) ==
    [has_lower |-> FALSE, lower_bound |-> 0, has_upper |-> FALSE, upper_bound |-> 0]

\* the interval [lower_bound, upper_bound) the existing filters of the
\* pagination field imply: `>=` filters bound it below, `<` filters above
get_field_value_interval(node, field_name, parameters) ==
    Strict2(filter_values(node, field_name, ">=", parameters),
            filter_values(node, field_name, "<", parameters),
            LAMBDA lowers, uppers :
        [has_lower |-> lowers # <<>>,
         lower_bound |-> IF lowers = <<>> THEN 0
                         ELSE strongest(FieldType(field_name), lowers, TRUE),
         has_upper |-> uppers # <<>>,
         upper_bound |-> IF uppers = <<>> THEN 0
                         ELSE strongest(FieldType(field_name), uppers, FALSE)])

\* bisect.bisect_left on a sorted sequence, as a 0-based position
bisect_left(field_type, samples, value) ==
    Cardinality({i \in DOMAIN samples : less_than(field_type, samples[i], value)})

\* number as a sum of num_splits almost equal integers, in ascending
\* order: <<1, 2, 2>> for 5 and 3
sum_partition_ascending(number, num_splits) ==
    LET lower == number \div num_splits
        num_high == number - lower * num_splits
    IN  [i \in 1..num_splits |->
            IF i <= num_splits - num_high THEN lower ELSE lower + 1]

\* number as a sum of num_splits almost equal integers, in descending
\* order: sum_partition(5, 3) = <<2, 2, 1>>
sum_partition(number, num_splits) ==
    LET lower == number \div num_splits
        num_high == number - lower * num_splits
    IN  [i \in 1..num_splits |-> IF i <= num_high THEN lower + 1 ELSE lower]

RECURSIVE accumulate(_)
\* itertools.accumulate: the running sums
accumulate(parts) ==
    IF parts = <<>> THEN <<>>
    ELSE Strict(accumulate(SubSeq(parts, 1, Len(parts) - 1)), LAMBDA front :
             front \o <<(IF front = <<>> THEN 0 ELSE front[Len(front)])
                          + parts[Len(parts)]>>)

\* the sequence as it is
keep_repetitions(values) == values

RECURSIVE deduplicate_sorted_generator(_)
\* a sorted sequence without its consecutive repetitions
deduplicate_sorted_generator(values) ==
    IF Len(values) <= 1 THEN values
    ELSE Strict(deduplicate_sorted_generator(SubSeq(values, 1, Len(values) - 1)),
                LAMBDA front :
             IF values[Len(values)] = front[Len(front)] THEN front
             ELSE front \o <<values[Len(values)]>>)

\* the positions i * num_quantiles // number_of_subdivisions
quantile_indices_by_floor(num_quantiles, number_of_subdivisions) ==
    [i \in 1..(number_of_subdivisions - 1) |->
        (i * num_quantiles) \div number_of_subdivisions]

\* the quantile positions chosen for number_of_subdivisions subdivisions of
\* num_quantiles relevant quantiles, as 0-based indices into them
quantile_indices(num_quantiles, number_of_subdivisions) ==
    Strict(accumulate(sum_partition(num_quantiles + 1, number_of_subdivisions)),
           LAMBDA sums : SubSeq(sums, 1, number_of_subdivisions - 1))

\* thresholds for a field with quantile statistics: the first and the last
\* sample are dropped, the rest is cut to the interval of the existing
\* filters, and number_of_subdivisions - 1 of them are picked evenly.
\* raised: an index past the relevant quantiles ends the generator.
compute_parameters_for_non_uuid_field(schema_info, interval, vertex_partition, vertex_type) ==
    LET field_name == vertex_partition.pagination_field
        field_type == FieldType(field_name)
        N == vertex_partition.number_of_subdivisions
        quantiles == get_field_quantiles(schema_info.statistics, vertex_type,
                                         field_name)
        min_quantile(proper_quantiles) ==
            IF interval.has_lower
            THEN bisect_left(field_type, proper_quantiles, interval.lower_bound)
            ELSE 0
        max_quantile(proper_quantiles) ==
            IF interval.has_upper
            THEN bisect_left(field_type, proper_quantiles, interval.upper_bound)
            ELSE Len(proper_quantiles)
        pick(relevant_quantiles, indices) ==
            Strict(SelectSeq(indices, LAMBDA index : index < Len(relevant_quantiles)),
                   LAMBDA in_range :
                [values |-> deduplicate_sorted_generator(
                                [i \in 1..Len(in_range) |->
                                    relevant_quantiles[in_range[i] + 1]]),
                 raised |-> Len(in_range) < Len(indices)])
    IN  IF Len(quantiles) < ideal_quantile_resolution(N)
        THEN [values |-> <<>>, raised |-> FALSE]
        ELSE Strict(SubSeq(quantiles, 2, Len(quantiles) - 1),
                    LAMBDA proper_quantiles :
             Strict(SubSeq(proper_quantiles, min_quantile(proper_quantiles) + 1,
                           max_quantile(proper_quantiles)),
                    LAMBDA relevant_quantiles :
             Strict(quantile_indices(Len(relevant_quantiles), N),
                    LAMBDA indices : pick(relevant_quantiles, indices))))

\* thresholds for a uuid4 field that cut the whole of [0, 2^128), whatever
\* the existing filters
compute_parameters_for_uuid_field_of_whole_space(interval, vertex_partition) ==
    LET N == vertex_partition.number_of_subdivisions
    IN  [values |-> deduplicate_sorted_generator(
                        [i \in 1..(N - 1) |->
                            to_canonical_text(
                                BigDivSmall(BigMulSmall(UuidSpaceSize, i), N))]),
         raised |-> FALSE]

\* thresholds for a uuid4 field: the interval of the existing filters within
\* [0, 2^128) is cut into number_of_subdivisions equal parts
compute_parameters_for_uuid_field(interval, vertex_partition) ==
    LET N == vertex_partition.number_of_subdivisions
        split(lower, upper) ==
            IF ~BigLess(lower, upper)
            THEN [values |-> <<>>, raised |-> FALSE]
            ELSE Strict(BigSub(upper, lower), LAMBDA measure :
                 [values |-> deduplicate_sorted_generator(
                                 [i \in 1..(N - 1) |->
                                     to_canonical_text(
                                         BigAdd(lower,
                                                BigDivSmall(BigMulSmall(measure, i),
                                                            N)))]),
                  raised |-> FALSE])
    IN  Strict2(IF interval.has_lower
                THEN from_canonical_text(interval.lower_bound)
                ELSE MIN_UUID_INT,
                IF interval.has_upper
                THEN from_canonical_text(interval.upper_bound)
                ELSE UuidSpaceSize,
                split)

\* the thresholds that cut the vertex of the plan into its subdivisions
generate_parameters_for_vertex_partition(schema_info, query_ast, parameters, vertex_partition) ==
    LET field_name == vertex_partition.pagination_field
    IN  Strict(get_vertex_at_path(query_ast, query_ast.name,
                                  vertex_partition.query_path, 1),
               LAMBDA vertex :
        Strict(get_field_value_interval(vertex.node, field_name, parameters),
               LAMBDA interval :
            IF field_name \in schema_info.uuid4_fields[vertex.vertex_type]
            THEN compute_parameters_for_uuid_field(interval, vertex_partition)
            ELSE compute_parameters_for_non_uuid_field(schema_info, interval,
                                                       vertex_partition,
                                                       vertex.vertex_type)))

(***************************************************************************)
(* paginate_query (query_pagination/query_splitter.py).  The cardinality   *)
(* estimate is the result of the external estimator: an input, given in    *)
(* units of 1/CardDen rows.                                                *)
(***************************************************************************)
\* the `None` a call returns for a remainder that does not exist
NoneQuery ==
    ASTWithParameters([kind |-> "None", name |-> "", directives |-> <<>>,
                       selections |-> <<>>], NoParameters)

\* max(1, estimate // desired_page_row_count)
number_of_pages_rounded_down(estimate_units, desired_page_row_count) ==
    Max2(1, estimate_units \div (CardDen * desired_page_row_count))

\* max(1, ceil(estimate / desired_page_row_count))
number_of_pages_for(estimate_units, desired_page_row_count) ==
    Max2(1, CeilDiv(estimate_units, CardDen * desired_page_row_count))

\* (first page, remainder) of the query; raised: the call ends in an error
\* of the parameter generator and returns nothing
paginate_query(schema_info, query, estimate_units, desired_page_row_count) ==
    LET N == number_of_pages_for(estimate_units, desired_page_row_count)
        unsplit(planned) ==
            [number_of_pages |-> N, plan |-> planned.plan,
             advisories |-> planned.advisories,
             generated |-> [values |-> <<>>, raised |-> FALSE],
             has_threshold |-> FALSE, threshold |-> 0,
             first |-> query, remainder |-> NoneQuery, raised |-> FALSE]
        split(planned, generated) ==
            Strict(generate_parameterized_queries(query, planned.plan[1],
                                                  generated.values[1]),
                   LAMBDA pair :
                [unsplit(planned) EXCEPT !.generated = generated,
                                         !.has_threshold = TRUE,
                                         !.threshold = generated.values[1],
                                         !.first = pair.next_page,
                                         !.remainder = pair.remainder])
    IN  Strict(get_pagination_plan(schema_info, query.query_ast, N),
               LAMBDA planned :
        IF planned.plan = <<>> THEN unsplit(planned)
        ELSE Strict(generate_parameters_for_vertex_partition(
                        schema_info, query.query_ast, query.parameters,
                        planned.plan[1]),
                    LAMBDA generated :
             IF generated.values = <<>>
             THEN [unsplit(planned) EXCEPT !.generated = generated,
                                           !.first = NoneQuery, !.raised = TRUE]
             ELSE split(planned, generated)))

(***************************************************************************)
(* The fixtures of tests/snapshot_tests/test_query_pagination.py.          *)
(***************************************************************************)
\* pagination_keys of the tests: "uuid", with Species forced to the int
\* field limbs and Event to the datetime field event_date
pagination_keys ==
    [v \in VertexClassNames |->
        IF v = "Species" THEN "limbs"
        ELSE IF v = "Event" THEN "event_date" ELSE "uuid"]

\* pagination_keys of the tests that page on uuid only
pagination_keys_uuid == [v \in VertexClassNames |-> "uuid"]


uuid4_fields == [v \in VertexClassNames |-> {"uuid"}]

class_counts(vertex_type, count) == [k \in {vertex_type} |-> count]

\* a property field with an @output and no filter
OutputField(field_name, out_name) ==
    FieldNode(field_name, <<OutputDirective(out_name)>>, <<>>)

\* { <root> { name @output(out_name: out_name) } } without arguments
NameQuery(root, out_name) ==
    ASTWithParameters(FieldNode(root, <<>>, <<OutputField("name", out_name)>>),
                      NoParameters)

\* range(100), range(101), range(0, 1001, 10), datetimes, and the
\* duplicate-heavy sample of the tests
quantiles_range_100 == SeqOfRange(0, 99)

quantiles_range_101 == SeqOfRange(0, 100)

quantiles_by_tens == [i \in 1..101 |-> 10 * (i - 1)]

quantiles_datetime == [i \in 1..101 |-> datetime(2000 + (i - 1), 1, 1)]

quantiles_consecutive == Repeat(0, 1000) \o SeqOfRange(0, 100)

species_schema_info(samples) ==
    QueryPlanningSchemaInfo(
        LocalStatistics(class_counts("Species", 1000),
                        QuantilesOf("Species", "limbs", samples)),
        pagination_keys, uuid4_fields)

query_inline_fragment ==
    ASTWithParameters(
        FieldNode("Species", <<>>,
            <<FieldNode("out_Entity_Related", <<>>,
                <<InlineFragmentNode("Species",
                    <<OutputField("name", "species_name")>>)>>)>>),
        NoParameters)

query_existing_filters ==
    ASTWithParameters(
        FieldNode("Species", <<>>,
            <<FieldNode("limbs", <<FilterDirective("<", UserParam("num_limbs"))>>, <<>>),
              OutputField("name", "species_name")>>),
        WithBinding(NoParameters, UserParam("num_limbs"), 505))

query_name_conflict ==
    ASTWithParameters(
        FieldNode("Species", <<>>,
            <<FieldNode("name", <<OutputDirective("species_name"),
                                  FilterDirective("!=", PagedParam(0))>>, <<>>)>>),
        WithBinding(NoParameters, PagedParam(0), "Cow"))

query_filter_deduplication ==
    ASTWithParameters(
        FieldNode("Species", <<>>,
            <<FieldNode("limbs",
                  <<FilterDirective(">=", UserParam("limbs_more_than"))>>, <<>>),
              OutputField("name", "species_name")>>),
        WithBinding(NoParameters, UserParam("limbs_more_than"), 100))

\* the tests, in the order of the file
TestCaseNames ==
    <<"test_pagination_planning_basic", "test_pagination_planning_on_int",
      "test_pagination_planning_on_int_error", "test_basic_pagination",
      "test_parameter_value_generation_int",
      "test_parameter_value_generation_inline_fragment",
      "test_parameter_value_generation_with_existing_filters",
      "test_parameter_value_generation_datetime",
      "test_parameter_value_generation_uuid",
      "test_parameter_value_generation_consecutive",
      "test_query_parameterizer", "test_query_parameterizer_name_conflict",
      "test_query_parameterizer_filter_deduplication">>

\* the schema_info a test builds
test_schema_info(test) ==
    CASE test = "test_pagination_planning_basic" ->
            QueryPlanningSchemaInfo(
                LocalStatistics(class_counts("Animal", 1000), NoQuantiles),
                pagination_keys_uuid, uuid4_fields)
      [] test = "test_pagination_planning_on_int" ->
            species_schema_info(quantiles_range_100)
      [] test = "test_pagination_planning_on_int_error" ->
            QueryPlanningSchemaInfo(
                LocalStatistics(class_counts("Species", 1000), NoQuantiles),
                pagination_keys, uuid4_fields)
      [] test = "test_basic_pagination" ->
            QueryPlanningSchemaInfo(
                LocalStatistics(class_counts("Animal", 4), NoQuantiles),
                pagination_keys_uuid, uuid4_fields)
      [] test \in {"test_parameter_value_generation_int",
                   "test_parameter_value_generation_inline_fragment"} ->
            species_schema_info(quantiles_range_101)
      [] test = "test_parameter_value_generation_with_existing_filters" ->
            species_schema_info(quantiles_by_tens)
      [] test = "test_parameter_value_generation_datetime" ->
            QueryPlanningSchemaInfo(
                LocalStatistics(class_counts("Event", 1000),
                    QuantilesOf("Event", "event_date", quantiles_datetime)),
                pagination_keys, uuid4_fields)
      [] test = "test_parameter_value_generation_uuid" ->
            QueryPlanningSchemaInfo(
                LocalStatistics(class_counts("Animal", 1000), NoQuantiles),
                pagination_keys_uuid, uuid4_fields)
      [] OTHER -> species_schema_info(quantiles_consecutive)

\* the query and the arguments a test passes
test_query(test) ==
    CASE test \in {"test_pagination_planning_basic",
                   "test_parameter_value_generation_uuid"} ->
            NameQuery("Animal", "animal_name")
      [] test = "test_basic_pagination" -> NameQuery("Animal", "animal")
      [] test = "test_parameter_value_generation_inline_fragment" ->
            query_inline_fragment
      [] test = "test_parameter_value_generation_with_existing_filters" ->
            query_existing_filters
      [] test = "test_parameter_value_generation_datetime" ->
            NameQuery("Event", "event_name")
      [] test = "test_query_parameterizer_name_conflict" -> query_name_conflict
      [] test = "test_query_parameterizer_filter_deduplication" ->
            query_filter_deduplication
      [] OTHER -> NameQuery("Species", "species_name")

\* number_of_pages of the planning tests, number of subdivisions of the
\* generation tests, and the threshold of the parameterizer tests
test_number_of_pages == 10

test_number_of_subdivisions == 4

test_parameter_value == 100

(***************************************************************************)
(* The inputs the callers draw.                                            *)
(***************************************************************************)
\* values bound to the filters of an int field, thresholds handed to the
\* parameterizer for it
IntValues == 0..MaxVal

IntThresholds == 0..(MaxVal + 1)

\* the uuids at the quarters of the uuid space
UuidValues ==
    {to_canonical_text(BigDivSmall(BigMulSmall(UuidSpaceSize, i), 4)) : i \in 1..3}

LowerParamNames == {UserParam("limbs_more_than"), PagedParam(0)}

UpperParamNames == {UserParam("num_limbs"), PagedParam(1)}

NameParamNames == {UserParam("wanted"), PagedParam(0), PagedParam(1)}

\* a filter the caller put on a field: [has, op_name, param, value]
Bound(has, op_name, param, value) ==
    [has |-> has, op_name |-> op_name, param |-> param, value |-> value]

BoundDirectives(bound) ==
    IF bound.has THEN <<FilterDirective(bound.op_name, bound.param)>> ELSE <<>>

BindBound(parameters, bound) ==
    IF bound.has THEN WithBinding(parameters, bound.param, bound.value)
    ELSE parameters

\* a query on one root vertex: the pagination field with its bounds (when
\* it has any directive), an optional second output field, and name with
\* its output and an optional `!=` filter
RootQuery(root, root_keys, lower, upper, key_output, name_filter, with_description, key_first) ==
    LET key_field == root_keys[root]
        key_directives ==
            BoundDirectives(lower) \o BoundDirectives(upper)
                \o (IF key_output THEN <<OutputDirective("key_value")>> ELSE <<>>)
        key_selection ==
            IF key_directives = <<>> THEN <<>>
            ELSE <<FieldNode(key_field, key_directives, <<>>)>>
        others ==
            (IF with_description
             THEN <<OutputField("description", "description")>> ELSE <<>>)
                \o <<FieldNode("name",
                               <<OutputDirective("name")>>
                                   \o BoundDirectives(name_filter), <<>>)>>
    IN  ASTWithParameters(
            FieldNode(root, <<>>,
                      IF key_first THEN key_selection \o others
                      ELSE others \o key_selection),
            BindBound(BindBound(BindBound(NoParameters, lower), upper), name_filter))

RECURSIVE SeqFromCounts(_, _)
\* the sorted sequence with counts[v] samples of each value v >= value
SeqFromCounts(counts, value) ==
    IF value > MaxVal THEN <<>>
    ELSE Repeat(value, counts[value]) \o SeqFromCounts(counts, value + 1)

RECURSIVE SumCounts(_, _)
SumCounts(counts, value) ==
    IF value > MaxVal THEN 0 ELSE counts[value] + SumCounts(counts, value + 1)

\* every non-decreasing sample sequence over IntValues of at most
\* MaxSamples samples
SampleSequences ==
    {SeqFromCounts(counts, 0) :
        counts \in {c \in [IntValues -> 0..MaxSamples] : SumCounts(c, 0) <= MaxSamples}}

\* the paths to the vertices of a query: the root, and its vertex fields
QueryPaths(query_ast) ==
    {<<query_ast.name>>}
        \cup {<<query_ast.name, query_ast.selections[i].name>> :
                i \in {j \in DOMAIN query_ast.selections :
                          query_ast.selections[j].selections # <<>>}}

\* the thresholds a caller hands to the parameterizer for a field
ThresholdsFor(field_name) ==
    CASE FieldType(field_name) = "Int" -> IntThresholds \cup {test_parameter_value}
      [] FieldType(field_name) = "UUID" -> UuidValues
      [] FieldType(field_name) = "Datetime" -> {datetime(2026, 1, 1)}

PageCounts == 1..MaxPages \cup {test_number_of_pages}

Subdivisions == 2..MaxPages \cup {test_number_of_subdivisions}

(***************************************************************************)
(* State: the schema information and the query a caller holds, the call    *)
(* it made on that query with its arguments, and what the call returned.   *)
(* The functions are pure: a caller makes one call on the query it holds   *)
(* (a second call on the same query would only return what the first call  *)
(* with those arguments returns), then may take up the remainder.          *)
(***************************************************************************)
VARIABLES
    schema_info,    \* QueryPlanningSchemaInfo of the caller
    original,       \* the query the caller started from
    query,          \* the query (with parameters) the caller holds now
    calls,          \* paginate_query calls whose remainder the caller took up
    thresholds,     \* the thresholds of those calls, oldest first
    op,             \* the function called last on query; "none" before a call
    args,           \* its arguments
    plan,           \* returned plan
    advisories,     \* returned advisories
    generated,      \* returned thresholds: [values, raised]
    next_page,      \* returned next_page / first page
    remainder,      \* returned remainder
    raised          \* the call ended in an error

vars == <<schema_info, original, query, calls, thresholds, op, args, plan,
          advisories, generated, next_page, remainder, raised>>

NoArgs ==
    [number_of_pages |-> 0, query_path |-> <<>>, has_threshold |-> FALSE,
     threshold |-> 0, estimate |-> 0, page_rows |-> 0]

NoGenerated == [values |-> <<>>, raised |-> FALSE]

\* nothing called yet on the query the caller holds
Fresh ==
    /\ op = "none"
    /\ args = NoArgs
    /\ plan = <<>>
    /\ advisories = <<>>
    /\ generated = NoGenerated
    /\ next_page = NoneQuery
    /\ remainder = NoneQuery
    /\ raised = FALSE

Start(info, start_query) ==
    /\ schema_info = info
    /\ original = start_query
    /\ query = start_query
    /\ calls = 0
    /\ thresholds = <<>>
    /\ Fresh

\* a caller of one of the tests
InitTest == \E i \in DOMAIN TestCaseNames :
    Start(test_schema_info(TestCaseNames[i]), test_query(TestCaseNames[i]))

\* a caller with a Species query carrying filters of its own, on a schema
\* without quantile statistics
InitSpecies ==
    \E has_lower, has_upper, key_output, has_name_filter, with_description,
       key_first \in BOOLEAN,
       lower_param \in LowerParamNames, upper_param \in UpperParamNames,
       name_param \in NameParamNames, lower_value, upper_value \in IntValues :
        /\ has_name_filter =>
              /\ has_lower => name_param # lower_param
              /\ has_upper => name_param # upper_param
        /\ Start(QueryPlanningSchemaInfo(
                     LocalStatistics(class_counts("Species", 1000), NoQuantiles),
                     pagination_keys, uuid4_fields),
                 RootQuery("Species", pagination_keys,
                           Bound(has_lower, ">=", lower_param, lower_value),
                           Bound(has_upper, "<", upper_param, upper_value),
                           key_output,
                           Bound(has_name_filter, "!=", name_param, "Cow"),
                           with_description, key_first))

\* a caller with the Species query of the tests on enumerated statistics
InitStatistics == \E samples \in SampleSequences :
    Start(species_schema_info(samples), NameQuery("Species", "species_name"))

\* a caller with an Animal query paged on its uuid
InitAnimal ==
    \E has_lower, has_name_filter \in BOOLEAN,
       lower_param \in {UserParam("uuid_from"), PagedParam(0)},
       name_param \in {UserParam("wanted"), PagedParam(1)},
       lower_value \in UuidValues, count \in {4, 1000} :
        Start(QueryPlanningSchemaInfo(
                  LocalStatistics(class_counts("Animal", count), NoQuantiles),
                  pagination_keys_uuid, uuid4_fields),
              RootQuery("Animal", pagination_keys_uuid,
                        Bound(has_lower, ">=", lower_param, lower_value),
                        Bound(FALSE, "<", lower_param, lower_value),
                        FALSE,
                        Bound(has_name_filter, "!=", name_param, "Cow"),
                        FALSE, TRUE))

Init == InitTest \/ InitSpecies \/ InitStatistics \/ InitAnimal

\* the root vertex plan a caller builds for the query it holds
RootPartition(number_of_subdivisions) ==
    VertexPartitionPlan(<<query.query_ast.name>>,
                        schema_info.pagination_keys[query.query_ast.name],
                        number_of_subdivisions)

Session == <<schema_info, original, query, calls, thresholds>>

\* the caller calls get_pagination_plan
GetPaginationPlan ==
    /\ op = "none"
    /\ \E N \in PageCounts :
       \E planned \in {get_pagination_plan(schema_info, query.query_ast, N)} :
        /\ op' = "get_pagination_plan"
        /\ args' = [NoArgs EXCEPT !.number_of_pages = N]
        /\ plan' = planned.plan
        /\ advisories' = planned.advisories
        /\ generated' = NoGenerated
        /\ next_page' = NoneQuery
        /\ remainder' = NoneQuery
        /\ raised' = FALSE
        /\ UNCHANGED Session

\* the caller calls generate_parameters_for_vertex_partition for a vertex
\* of the query and its pagination key
GenerateParameters ==
    /\ op = "none"
    /\ \E N \in Subdivisions, query_path \in QueryPaths(query.query_ast) :
        \E vertex \in {get_vertex_at_path(query.query_ast, query.query_ast.name,
                                           query_path, 1)} :
        \E partition \in {VertexPartitionPlan(
                               query_path,
                               schema_info.pagination_keys[vertex.vertex_type], N)} :
            /\ op' = "generate_parameters_for_vertex_partition"
            /\ args' = [NoArgs EXCEPT !.number_of_pages = N,
                                      !.query_path = query_path]
            /\ plan' = <<partition>>
            /\ advisories' = <<>>
            /\ generated' = generate_parameters_for_vertex_partition(
                                schema_info, query.query_ast, query.parameters,
                                partition)
            /\ next_page' = NoneQuery
            /\ remainder' = NoneQuery
            /\ raised' = generated'.raised
            /\ UNCHANGED Session

\* the caller calls generate_parameterized_queries with a threshold
GenerateParameterizedQueries ==
    /\ op = "none"
    /\ \E t \in ThresholdsFor(schema_info.pagination_keys[query.query_ast.name]) :
        \E partition \in {RootPartition(test_number_of_subdivisions)} :
        \E pair \in {generate_parameterized_queries(query, partition, t)} :
            /\ op' = "generate_parameterized_queries"
            /\ args' = [NoArgs EXCEPT !.number_of_pages = test_number_of_subdivisions,
                                      !.query_path = partition.query_path,
                                      !.has_threshold = TRUE, !.threshold = t]
            /\ plan' = <<partition>>
            /\ advisories' = <<>>
            /\ generated' = NoGenerated
            /\ next_page' = pair.next_page
            /\ remainder' = pair.remainder
            /\ raised' = FALSE
            /\ UNCHANGED Session

\* the caller calls paginate_query; the estimator answers estimate
PaginateQuery ==
    /\ op = "none"
    /\ \E estimate \in 0..MaxCard, page_rows \in 1..MaxPageRows :
        \E paged \in {paginate_query(schema_info, query, estimate, page_rows)} :
            /\ op' = "paginate_query"
            /\ args' = [NoArgs EXCEPT !.number_of_pages = paged.number_of_pages,
                                      !.has_threshold = paged.has_threshold,
                                      !.threshold = paged.threshold,
                                      !.estimate = estimate,
                                      !.page_rows = page_rows]
            /\ plan' = paged.plan
            /\ advisories' = paged.advisories
            /\ generated' = paged.generated
            /\ next_page' = paged.first
            /\ remainder' = paged.remainder
            /\ raised' = paged.raised
            /\ UNCHANGED Session

\* the caller takes up the remainder of its paginate_query call
NextPage ==
    /\ op = "paginate_query"
    /\ ~raised
    /\ remainder # NoneQuery
    /\ calls < MaxCalls
    /\ query' = remainder
    /\ calls' = calls + 1
    /\ thresholds' = Append(thresholds, args.threshold)
    /\ op' = "none"
    /\ args' = NoArgs
    /\ plan' = <<>>
    /\ advisories' = <<>>
    /\ generated' = NoGenerated
    /\ next_page' = NoneQuery
    /\ remainder' = NoneQuery
    /\ raised' = FALSE
    /\ UNCHANGED <<schema_info, original>>

Next ==
    \/ GetPaginationPlan
    \/ GenerateParameters
    \/ GenerateParameterizedQueries
    \/ PaginateQuery
    \/ NextPage

Spec == Init /\ [][Next]_vars

(***************************************************************************)
(* What the claims speak of.                                               *)
(***************************************************************************)
\* the pagination key of the root vertex of the query the caller holds
KeyField == schema_info.pagination_keys[query.query_ast.name]

CalledParameterizer == op = "generate_parameterized_queries"

CalledPlanner == op = "get_pagination_plan"

CalledGenerator == op = "generate_parameters_for_vertex_partition"

CalledPaginate == op = "paginate_query"

\* the filters a query puts on the field, each with the field carrying it
FiltersOn(query_ast, field_name) ==
    {x \in AllFilters(query_ast) : x[1] = field_name}

\* the values the query binds to the filters of the pagination key
KeyBounds == {query.parameters[x[2].value[1]] : x \in FiltersOn(query.query_ast, KeyField)}

\* values of the pagination key at and around the given points
RowKeyValues(field_type, points) ==
    CASE field_type = "Int" -> UNION {{v - 1, v, v + 1} : v \in points}
      [] field_type = "UUID" ->
            points \cup UuidValues \cup {to_canonical_text(MIN_UUID_INT)}
      [] field_type = "Datetime" ->
            points \cup {datetime(2000, 1, 1), datetime(2100, 1, 1)}

\* rows of the root vertex: the pagination key around the bounds of the
\* query and the threshold, and a name
Rows ==
    {[f \in {KeyField, "name"} |-> IF f = "name" THEN n ELSE kv] :
        kv \in RowKeyValues(FieldType(KeyField), KeyBounds \cup {args.threshold}),
        n \in {"Cow", "Dog"}}

\* next_page and remainder select disjoint rows, together those of query
Lossless ==
    \A row \in Rows :
        /\ (Selects(next_page, row) \/ Selects(remainder, row)) = Selects(query, row)
        /\ ~(Selects(next_page, row) /\ Selects(remainder, row))

\* the threshold is not below a lower bound nor above an upper bound that
\* the query puts on its pagination key
ThresholdWithinBounds ==
    LET interval == get_field_value_interval(query.query_ast, KeyField,
                                             query.parameters)
        field_type == FieldType(KeyField)
    IN  /\ interval.has_lower =>
               ~less_than(field_type, args.threshold, interval.lower_bound)
        /\ interval.has_upper =>
               ~less_than(field_type, interval.upper_bound, args.threshold)

NonKeySelections(query_ast) ==
    SelectSeq(query_ast.selections, LAMBDA f : f.name # KeyField)

\* the two pages with the operation of the filter added to each
Pages == {<<next_page, "<">>, <<remainder, ">=">>}

\* C2 as stated: in next_page and remainder every @output and every @filter
\* of the input is present, the selections other than the pagination key
\* keep their order, and every binding of the input other than a pagination
\* parameter is present with its value.
C2_EveryFilterAndBindingKept ==
    CalledParameterizer =>
        \A page \in Pages :
            /\ AllOutputs(query.query_ast) \subseteq AllOutputs(page[1].query_ast)
            /\ AllFilters(query.query_ast) \subseteq AllFilters(page[1].query_ast)
            /\ NonKeySelections(page[1].query_ast) = NonKeySelections(query.query_ast)
            /\ \A k \in DOMAIN query.parameters :
                   k[1] # PagedParamBase =>
                       /\ k \in DOMAIN page[1].parameters
                       /\ page[1].parameters[k] = query.parameters[k]

\* the filters of the input that the filter added with op_name replaces
ReplacedFilters(op_name) ==
    {x \in FiltersOn(query.query_ast, KeyField) : x[2].op_name = op_name}

\* C2 amended: in next_page and remainder every @output of the input is
\* present, and every @filter except the filters of the pagination key with
\* the operation of the added filter, which the added filter replaces; the
\* selections other than the pagination key keep their order; every binding
\* that a kept filter references is present with its value.
C2_ValuePreservingButReplacedFilters ==
    CalledParameterizer =>
        \A page \in Pages :
            LET kept == AllFilters(query.query_ast) \ ReplacedFilters(page[2])
            IN  /\ AllOutputs(query.query_ast) \subseteq AllOutputs(page[1].query_ast)
                /\ kept \subseteq AllFilters(page[1].query_ast)
                /\ NonKeySelections(page[1].query_ast)
                       = NonKeySelections(query.query_ast)
                /\ \A k \in {x[2].value[1] : x \in kept} :
                       /\ k \in DOMAIN page[1].parameters
                       /\ page[1].parameters[k] = query.parameters[k]

\* a query with an output and a lower bound on its pagination key and a
\* filter on its name: the remainder replaces the lower bound
C2_Witness ==
    /\ CalledParameterizer
    /\ ReplacedFilters(">=") # {}
    /\ \E x \in AllOutputs(query.query_ast) : x[1] = KeyField
    /\ FiltersOn(query.query_ast, "name") # {}
    /\ ~(AllFilters(query.query_ast) \subseteq AllFilters(remainder.query_ast))

\* the names the pages bind that the input does not
NewNames(page) == DOMAIN page.parameters \ DOMAIN query.parameters

\* C3: the name the parameterizer allocates is __paged_param_<k> for the
\* smallest k >= 0 whose name is no key of the input map: it is no key of
\* the input map, and the bindings of the input that the pages carry,
\* those named __paged_param_<j> among them, have the values of the input.
C3_SmallestFreeName ==
    CalledParameterizer =>
        \E k \in 0..Cardinality(DOMAIN query.parameters) :
            /\ NewNames(next_page) = {PagedParam(k)}
            /\ NewNames(remainder) = {PagedParam(k)}
            /\ next_page.parameters[PagedParam(k)] = args.threshold
            /\ remainder.parameters[PagedParam(k)] = args.threshold
            /\ \A j \in 0..(k - 1) : PagedParam(j) \in DOMAIN query.parameters
            /\ \A page \in Pages :
                   \A name \in DOMAIN page[1].parameters \cap DOMAIN query.parameters :
                       page[1].parameters[name] = query.parameters[name]

\* an input that binds __paged_param_0 and __paged_param_1 gets
\* __paged_param_2
C3_Witness ==
    /\ CalledParameterizer
    /\ {PagedParam(0), PagedParam(1)} \subseteq DOMAIN query.parameters
    /\ PagedParam(2) \in NewNames(next_page)

\* the placeholders of a query are the keys of its parameter map
Bound_Exactly(page) == Placeholders(page.query_ast) = DOMAIN page.parameters

\* C4: from a query whose placeholders are the keys of its parameter map,
\* through successive paginate_query calls on the remainder, the
\* placeholders of every first page and every remainder are the keys of its
\* parameter map.
C4_PlaceholdersAreKeys ==
    /\ Bound_Exactly(query)
    /\ (CalledPaginate /\ ~raised) =>
           (Bound_Exactly(next_page) /\ Bound_Exactly(remainder))

\* the second remainder: __paged_param_0, whose filter was replaced, is
\* gone and __paged_param_1 is bound
C4_Witness ==
    /\ CalledPaginate
    /\ calls >= 1
    /\ PagedParam(0) \in DOMAIN query.parameters
    /\ remainder # NoneQuery
    /\ PagedParam(0) \notin DOMAIN remainder.parameters
    /\ PagedParam(1) \in DOMAIN remainder.parameters

\* N = max(1, ceil(estimate / desired_page_row_count)) for the estimate of
\* estimate_units / CardDen rows: the least N >= 1 with N pages of
\* desired_page_row_count rows holding the estimate
IsNumberOfPages(N, estimate_units, desired_page_row_count) ==
    /\ N >= 1
    /\ N * desired_page_row_count * CardDen >= estimate_units
    /\ N > 1 => (N - 1) * desired_page_row_count * CardDen < estimate_units

\* the directives of the pagination key with the filter added; replacing:
\* in place of the filters of its operation
KeyDirectivesPlus(directives, directive, replacing) ==
    SelectSeq(directives,
              LAMBDA d : ~(replacing /\ IsFilter(d) /\ d.op_name = directive.op_name))
        \o <<directive>>

\* the query with the filter on the pagination key of its root vertex, the
\* key selected first when the query does not select it
QueryPlusFilter(query_ast, directive, replacing) ==
    IF \E i \in DOMAIN query_ast.selections : query_ast.selections[i].name = KeyField
    THEN [query_ast EXCEPT !.selections =
            [i \in DOMAIN query_ast.selections |->
                IF query_ast.selections[i].name = KeyField
                THEN [query_ast.selections[i] EXCEPT !.directives =
                         KeyDirectivesPlus(query_ast.selections[i].directives,
                                           directive, replacing)]
                ELSE query_ast.selections[i]]]
    ELSE [query_ast EXCEPT !.selections =
            <<FieldNode(KeyField, <<directive>>, <<>>)>> \o query_ast.selections]

\* the page is the query plus the filter `op_name $fresh`, fresh bound to
\* the threshold
IsPagePlusFilter(page, op_name, fresh, replacing) ==
    LET ast == QueryPlusFilter(query.query_ast, FilterDirective(op_name, fresh),
                               replacing)
        bindings == WithBinding(query.parameters, fresh, args.threshold)
    IN  /\ page.query_ast = ast
        /\ page.parameters = Restrict(bindings, Placeholders(ast))

\* the pair is the query cut at the first threshold on a fresh parameter
SplitsAtFirstThreshold(replacing) ==
    /\ generated.values # <<>>
    /\ Len(generated.values) <= args.number_of_pages - 1
    /\ args.threshold = generated.values[1]
    /\ \E k \in 0..Cardinality(DOMAIN query.parameters) :
        /\ PagedParam(k) \notin DOMAIN query.parameters
        /\ IsPagePlusFilter(next_page, "<", PagedParam(k), replacing)
        /\ IsPagePlusFilter(remainder, ">=", PagedParam(k), replacing)

\* 40000000-0000-0000-0000-000000000000
FirstQuarterUuid ==
    [i \in 1..(UuidHexDigits + Cardinality(DashPositions)) |->
        IF i \in DashPositions THEN "-" ELSE IF i = 1 THEN "4" ELSE "0"]

\* 4 rows estimated, 1 row a page, a uuid4 root without filters on its key
IsFirstQuarterExample ==
    /\ args.estimate = 4 * CardDen
    /\ args.page_rows = 1
    /\ KeyField \in schema_info.uuid4_fields[query.query_ast.name]
    /\ FiltersOn(query.query_ast, KeyField) = {}

PaginateSplits(replacing) ==
    CalledPaginate =>
        /\ IsNumberOfPages(args.number_of_pages, args.estimate, args.page_rows)
        /\ (args.number_of_pages >= 2 /\ plan # <<>> /\ ~raised) =>
               /\ generated = generate_parameters_for_vertex_partition(
                                  schema_info, query.query_ast, query.parameters,
                                  plan[1])
               /\ SplitsAtFirstThreshold(replacing)
               /\ IsFirstQuarterExample => args.threshold = FirstQuarterUuid

\* C5 as stated: paginate_query computes N = max(1, ceil(C / d)); for
\* N >= 2 and a non-empty plan the first page is the input query plus a `<`
\* filter on the pagination key and the remainder the input query plus a
\* `>=` filter, both on one fresh parameter bound to the first threshold
\* (C = 4, d = 1, uuid4 root without filters: 40000000-0000-...).
C5_SplitAddsFilters == PaginateSplits(FALSE)

\* C5 amended: as stated, the added filter standing in place of the
\* filters of the same operation that the input has on the pagination key,
\* whose bindings go when no filter references them.
C5_SplitAddsOrReplacesFilters == PaginateSplits(TRUE)

\* the call of test_basic_pagination: 4 rows, 1 row a page
C5_Witness ==
    /\ CalledPaginate
    /\ calls = 0
    /\ IsFirstQuarterExample
    /\ args.has_threshold
    /\ args.threshold = FirstQuarterUuid
    /\ remainder # NoneQuery

\* the estimate fits in one page
FitsInOnePage == args.estimate <= CardDen * args.page_rows

\* C6: for one page get_pagination_plan returns the empty plan without
\* advisories, and paginate_query of a query estimated to fit in one page
\* returns the query with its parameters as the first page, no remainder,
\* and raises nothing.
C6_SinglePageFixedPoint ==
    /\ (CalledPlanner /\ args.number_of_pages = 1) =>
           (plan = <<>> /\ advisories = <<>>)
    /\ (CalledPaginate /\ FitsInOnePage) =>
           /\ next_page = query
           /\ remainder = NoneQuery
           /\ ~raised
           /\ plan = <<>>
           /\ advisories = <<>>

\* a remainder with its bindings paginated again and fitting in one page
C6_Witness ==
    /\ CalledPaginate
    /\ calls >= 1
    /\ FitsInOnePage
    /\ DOMAIN query.parameters # {}
    /\ next_page = query

\* the quantile samples recorded for the pagination key of the root
KeySamples ==
    get_field_quantiles(schema_info.statistics, query.query_ast.name, KeyField)

\* the planner plans exactly for a uuid4 key or `need` samples, and else
\* advises InsufficientQuantiles(have, need)
PlannerDecides(need) ==
    LET root_type == query.query_ast.name
    IN  IF KeyField \in schema_info.uuid4_fields[root_type] \/ Len(KeySamples) >= need
        THEN /\ plan = <<VertexPartitionPlan(<<root_type>>, KeyField,
                                             args.number_of_pages)>>
             /\ advisories = <<>>
        ELSE /\ plan = <<>>
             /\ advisories = <<InsufficientQuantiles(root_type, KeyField,
                                                     Len(KeySamples), need)>>

\* C7 as stated: for N >= 2 get_pagination_plan returns the plan of the
\* root on its pagination key and no advisory exactly when the key is a
\* uuid4 field or has K >= 2N+1 samples, and else the empty plan with the
\* one advisory InsufficientQuantiles(root, field, K, 2N+1).
C7_PlansFromTwoSamplesAPage ==
    (CalledPlanner /\ args.number_of_pages >= 2) =>
        PlannerDecides(2 * args.number_of_pages + 1)

\* C7 amended: the same with 5N+1 samples in place of 2N+1.
C7_PlansFromFiveSamplesAPage ==
    (CalledPlanner /\ args.number_of_pages >= 2) =>
        PlannerDecides(5 * args.number_of_pages + 1)

\* an int key with exactly 5N+1 samples is planned
C7_Witness ==
    /\ CalledPlanner
    /\ args.number_of_pages >= 2
    /\ KeyField \notin schema_info.uuid4_fields[query.query_ast.name]
    /\ Len(KeySamples) = 5 * args.number_of_pages + 1
    /\ plan # <<>>

\* C8 as stated: for every number_of_pages >= 1 an empty plan of
\* get_pagination_plan comes with at least one advisory.
C8_EmptyPlanAdvises == (CalledPlanner /\ plan = <<>>) => advisories # <<>>

\* C8 amended: for every number_of_pages >= 2 an empty plan of
\* get_pagination_plan comes with at least one advisory.
C8_EmptyPlanAdvisesBeyondOnePage ==
    (CalledPlanner /\ args.number_of_pages >= 2 /\ plan = <<>>) => advisories # <<>>

\* samples recorded, but too few for the pages asked
C8_Witness ==
    /\ CalledPlanner
    /\ args.number_of_pages >= 2
    /\ Len(KeySamples) > 0
    /\ plan = <<>>
    /\ Len(advisories) = 1

\* the vertex the generator was called for, and its samples
GeneratorVertex ==
    get_vertex_at_path(query.query_ast, query.query_ast.name, args.query_path, 1)

GeneratorSamples ==
    get_field_quantiles(schema_info.statistics, GeneratorVertex.vertex_type,
                        plan[1].pagination_field)

\* C9: the thresholds generate_parameters_for_vertex_partition yields for
\* N >= 2 are strictly increasing in the order of the field's type, and at
\* most N - 1.
C9_StrictlyIncreasing ==
    CalledGenerator =>
        /\ \A i \in 1..(Len(generated.values) - 1) :
               less_than(FieldType(plan[1].pagination_field),
                         generated.values[i], generated.values[i + 1])
        /\ Len(generated.values) <= args.number_of_pages - 1

\* 1000 zeros and 0..100 cut in four: the one threshold 0
C9_Witness ==
    /\ CalledGenerator
    /\ args.number_of_pages = test_number_of_subdivisions
    /\ Len(GeneratorSamples) > 1000
    /\ GeneratorSamples[1000] = GeneratorSamples[1]
    /\ generated.values = <<0>>

\* the vertex carries no filter on the field
NoFilterOn(node, field_name) ==
    \A i \in DOMAIN node.selections :
        node.selections[i].name = field_name => FiltersOf(node.selections[i]) = <<>>

\* 101 strictly increasing samples of a field without filters, 4 subdivisions
IsQuartersCase ==
    /\ CalledGenerator
    /\ args.number_of_pages = 4
    /\ Len(GeneratorSamples) = 101
    /\ \A i \in 1..100 :
           less_than(FieldType(plan[1].pagination_field),
                     GeneratorSamples[i], GeneratorSamples[i + 1])
    /\ NoFilterOn(GeneratorVertex.node, plan[1].pagination_field)

\* C10: for 101 strictly increasing samples s_0..s_100 of a field without
\* filters and 4 subdivisions the generator yields s_26, s_51, s_76:
\* 26, 51, 76 for the samples 0..100, Jan 1 of 2026, 2051, 2076 for Jan 1 of
\* 2000..2100, at the root and at a vertex under an inline type refinement.
C10_QuartersOf101Samples ==
    IsQuartersCase =>
        /\ generated.values
               = <<GeneratorSamples[27], GeneratorSamples[52], GeneratorSamples[77]>>
        /\ ~generated.raised
        /\ (FieldType(plan[1].pagination_field) = "Int"
                /\ GeneratorSamples[1] = 0 /\ GeneratorSamples[101] = 100) =>
               generated.values = <<26, 51, 76>>
        /\ (FieldType(plan[1].pagination_field) = "Datetime"
                /\ GeneratorSamples = quantiles_datetime) =>
               generated.values = <<datetime(2026, 1, 1), datetime(2051, 1, 1),
                                    datetime(2076, 1, 1)>>

\* the vertex under out_Entity_Related and `... on Species`
C10_Witness ==
    /\ IsQuartersCase
    /\ args.query_path = <<"Species", "out_Entity_Related">>
    /\ GeneratorVertex.node.kind = "InlineFragment"
    /\ generated.values = <<26, 51, 76>>

\* the filters that the generator's vertex puts on its pagination field
GeneratorFilters ==
    UNION {Range(FiltersOf(f)) :
              f \in {x \in Range(GeneratorVertex.node.selections) :
                        x.name = plan[1].pagination_field}}

\* the value passes the filter, as far as the filter bounds the field
WithinFilter(value, directive) ==
    LET field_type == FieldType(plan[1].pagination_field)
        bound == query.parameters[directive.value[1]]
    IN  /\ directive.op_name = ">=" => ~less_than(field_type, value, bound)
        /\ directive.op_name = "<" => less_than(field_type, value, bound)

\* limbs < $num_limbs bound to 505 on the samples 0, 10, ..., 1000, cut in 4
IsExistingFilterExample ==
    /\ CalledGenerator
    /\ args.number_of_pages = 4
    /\ FieldType(plan[1].pagination_field) = "Int"
    /\ Len(GeneratorSamples) = 101
    /\ \A i \in 1..101 : GeneratorSamples[i] = 10 * (i - 1)
    /\ Cardinality(GeneratorFilters) = 1
    /\ \A d \in GeneratorFilters :
           d.op_name = "<" /\ query.parameters[d.value[1]] = 505

\* C11: every threshold the generator yields lies inside the interval that
\* the existing filters of the pagination field imply (not below a `>=`
\* bound, below a `<` bound), and the samples 0, 10, ..., 1000 under
\* `limbs < $num_limbs` = 505 with 4 subdivisions give 140, 270, 400.
C11_ThresholdsInsideInterval ==
    CalledGenerator =>
        /\ \A i \in 1..Len(generated.values) :
               \A d \in GeneratorFilters : WithinFilter(generated.values[i], d)
        /\ IsExistingFilterExample => generated.values = <<140, 270, 400>>

\* the call of test_parameter_value_generation_with_existing_filters
C11_Witness ==
    /\ IsExistingFilterExample
    /\ Len(generated.values) = 3
    /\ generated.values[3] = 400

\* the canonical text of the UUID whose first digit is c, all others 0
LeadingDigitUuid(c) ==
    [i \in 1..(UuidHexDigits + Cardinality(DashPositions)) |->
        IF i \in DashPositions THEN "-" ELSE IF i = 1 THEN c ELSE "0"]

\* a small natural as a number of the UUID arithmetic
BigOfSmall(n) == [i \in 1..BigLimbs |-> IF i = BigLimbs THEN n ELSE 0]

\* lowercase hexadecimal digits grouped 8-4-4-4-12 by dashes
IsCanonicalText(text) ==
    /\ Len(text) = UuidHexDigits + Cardinality(DashPositions)
    /\ \A i \in 1..Len(text) :
           IF i \in DashPositions THEN text[i] = "-"
           ELSE \E k \in 1..16 : HexChars[k] = text[i]

\* value = lower + floor(i * (2^128 - lower) / N), stated by multiplication:
\* N * (value - lower) <= i * (2^128 - lower) < N * (value - lower) + N
IsShareOf(value, lower, i, N) ==
    /\ ~BigLess(value, lower)
    /\ Strict2(BigMulSmall(BigSub(UuidSpaceSize, lower), i),
               BigMulSmall(BigSub(value, lower), N),
               LAMBDA share, scaled :
                   /\ ~BigLess(share, scaled)
                   /\ BigLess(BigSub(share, scaled), BigOfSmall(N)))

\* the lower bounds the existing `>=` filters put on the generator's field
GeneratorLowerBounds ==
    {query.parameters[d.value[1]] : d \in {g \in GeneratorFilters : g.op_name = ">="}}

\* a uuid4 field that the vertex bounds from below at most once, not above
IsUuidCase ==
    /\ CalledGenerator
    /\ plan[1].pagination_field \in schema_info.uuid4_fields[GeneratorVertex.vertex_type]
    /\ \A d \in GeneratorFilters : d.op_name = ">="
    /\ Cardinality(GeneratorLowerBounds) <= 1

\* C12: for a uuid4 field the thresholds are computed by exact integer
\* arithmetic over [0, 2^128), without statistics: with no filter the i-th
\* of the N - 1 thresholds is the lowercase dashed text of i * 2^128 / N
\* (N = 4 gives 40000000-..., 80000000-..., c0000000-...), and with an
\* existing lower bound L the thresholds divide [L, 2^128) uniformly
\* (L = 40000000-..., N = 3 gives the first threshold 80000000-...).
C12_UuidThresholdsUniform ==
    IsUuidCase =>
        LET N == args.number_of_pages
            lower == IF GeneratorLowerBounds = {} THEN BigOfSmall(0)
                     ELSE from_canonical_text(CHOOSE b \in GeneratorLowerBounds : TRUE)
        IN  /\ Len(generated.values) = N - 1
            /\ \A i \in 1..Len(generated.values) :
                   /\ IsCanonicalText(generated.values[i])
                   /\ IsShareOf(from_canonical_text(generated.values[i]), lower, i, N)
            /\ (N = 4 /\ GeneratorLowerBounds = {}) =>
                   generated.values = <<LeadingDigitUuid("4"), LeadingDigitUuid("8"),
                                        LeadingDigitUuid("c")>>
            /\ (N = 3 /\ GeneratorLowerBounds = {LeadingDigitUuid("4")}) =>
                   generated.values[1] = LeadingDigitUuid("8")

C12_Witness ==
    /\ IsUuidCase
    /\ args.number_of_pages = 3
    /\ GeneratorLowerBounds = {LeadingDigitUuid("4")}
    /\ Len(generated.values) = 2
    /\ generated.values[1] = LeadingDigitUuid("8")

\* the `>=` filters a query puts on the pagination key
LowerFilters(query_ast) ==
    {x \in FiltersOn(query_ast, KeyField) : x[2].op_name = ">="}

\* the filter `op_name $param` on the pagination key
KeyFilter(op_name, param) == <<KeyField, FilterDirective(op_name, param)>>

\* the parameterizer was called on a query whose pagination key carries a
\* `>=` filter on a bound parameter
HasExistingLowerBound ==
    /\ CalledParameterizer
    /\ LowerFilters(query.query_ast) # {}
    /\ \A x \in LowerFilters(query.query_ast) :
           x[2].value[1] \in DOMAIN query.parameters

\* next_page keeps the existing `>=` filter and gains one filter, the `<`
\* filter on the fresh parameter
NextPageGainsUpperBound ==
    /\ LowerFilters(next_page.query_ast) = LowerFilters(query.query_ast)
    /\ \E fresh \in NewNames(next_page) :
           FiltersOn(next_page.query_ast, KeyField)
                   \ FiltersOn(query.query_ast, KeyField)
               = {KeyFilter("<", fresh)}

\* neither output carries two lower-bound filters on the pagination key
NoTwoLowerBounds ==
    /\ Cardinality(LowerFilters(next_page.query_ast)) <= 1
    /\ Cardinality(LowerFilters(remainder.query_ast)) <= 1

\* C13 as stated: from a query whose pagination key carries a `>=` filter on
\* a bound parameter, the remainder reuses that filter and carries no `>=`
\* filter on a fresh parameter, next_page keeps it and gains exactly the `<`
\* filter on the fresh parameter, and neither carries two lower bounds.
C13_RemainderReusesLowerBound ==
    HasExistingLowerBound =>
        /\ LowerFilters(remainder.query_ast) = LowerFilters(query.query_ast)
        /\ \A fresh \in NewNames(remainder) :
               KeyFilter(">=", fresh) \notin FiltersOn(remainder.query_ast, KeyField)
        /\ NextPageGainsUpperBound
        /\ NoTwoLowerBounds

\* C13 amended: from a query whose pagination key carries a `>=` filter on
\* a bound parameter, the only `>=` filter of the remainder on the key is
\* the one on the fresh parameter, bound to the threshold, which replaces
\* the existing filter; next_page keeps the existing `>=` filter and gains
\* exactly the `<` filter on the fresh parameter; neither output carries two
\* lower-bound filters on the pagination key.
C13_RemainderReplacesLowerBound ==
    HasExistingLowerBound =>
        /\ \E fresh \in NewNames(remainder) :
               /\ LowerFilters(remainder.query_ast) = {KeyFilter(">=", fresh)}
               /\ remainder.parameters[fresh] = args.threshold
        /\ NextPageGainsUpperBound
        /\ NoTwoLowerBounds

\* test_query_parameterizer_filter_deduplication: limbs >= $limbs_more_than
\* bound to 100, cut at 100
C13_Witness ==
    /\ CalledParameterizer
    /\ query = query_filter_deduplication
    /\ args.threshold = test_parameter_value
    /\ LowerFilters(remainder.query_ast) = {KeyFilter(">=", PagedParam(0))}
    /\ LowerFilters(next_page.query_ast) = {KeyFilter(">=", UserParam("limbs_more_than"))}
    /\ KeyFilter("<", PagedParam(0)) \in FiltersOn(next_page.query_ast, KeyField)

\* the paginate_query call cut its query at a threshold
PaginateSplit == CalledPaginate /\ ~raised /\ args.has_threshold

\* rows of the root vertex around the bounds of the original query and every
\* threshold of the calls so far
SuccessiveRows ==
    {[f \in {KeyField, "name"} |-> IF f = "name" THEN n ELSE kv] :
        kv \in RowKeyValues(FieldType(KeyField),
                            {original.parameters[x[2].value[1]] :
                                 x \in FiltersOn(original.query_ast, KeyField)}
                                \cup Range(thresholds) \cup {args.threshold}),
        n \in {"Cow", "Dog"}}

\* the threshold of this call is above the threshold of the call before
ThresholdsIncrease ==
    calls >= 1 => less_than(FieldType(KeyField), thresholds[calls], args.threshold)

\* the page of this call selects the rows of the original query from the
\* threshold of the call before up to the threshold of this call
PageIsInterval ==
    \A row \in SuccessiveRows :
        Selects(next_page, row) =
            /\ Selects(original, row)
            /\ calls >= 1 =>
                   ~less_than(FieldType(KeyField), row[KeyField], thresholds[calls])
            /\ less_than(FieldType(KeyField), row[KeyField], args.threshold)

\* the remainder carries one lower-bound filter on the pagination key, bound
\* to the threshold of this call
RemainderFromLatestThreshold ==
    /\ Cardinality(LowerFilters(remainder.query_ast)) = 1
    /\ \A x \in LowerFilters(remainder.query_ast) :
           remainder.parameters[x[2].value[1]] = args.threshold

\* the remainder selects the rows of the original query that no page selects
RemainderIsRest ==
    \A row \in SuccessiveRows :
        Selects(remainder, row) =
            /\ Selects(original, row)
            /\ ~less_than(FieldType(KeyField), row[KeyField], args.threshold)

\* C14: when the caller calls paginate_query on the remainder again and
\* again, the thresholds of the calls are strictly increasing, the k-th
\* page selects exactly the rows with t_(k-1) <= field < t_k (the first
\* page the rows with field < t_1), each remainder carries exactly one
\* lower-bound filter on the pagination key, bound to the latest threshold,
\* so the pages are disjoint and with the last remainder cover the rows of
\* the original query.
C14_SuccessivePagesAdvance ==
    PaginateSplit =>
        /\ ThresholdsIncrease
        /\ PageIsInterval
        /\ RemainderFromLatestThreshold
        /\ RemainderIsRest

\* the generator was called for a field with enough quantile samples
IsQuantileCase ==
    /\ CalledGenerator
    /\ plan[1].pagination_field
           \notin schema_info.uuid4_fields[GeneratorVertex.vertex_type]
    /\ Len(GeneratorSamples) >= 5 * args.number_of_pages + 1

\* the sequence is the picks without their repetitions: the same values,
\* and the picks themselves when no two of them are equal
IsPicksDeduplicated(values, picks) ==
    /\ Range(values) = Range(picks)
    /\ Cardinality(Range(picks)) = Len(picks) => values = picks

\* the samples but the first and the last that pass the existing filters
RelevantSamples ==
    SelectSeq(SubSeq(GeneratorSamples, 2, Len(GeneratorSamples) - 1),
              LAMBDA sample : \A d \in GeneratorFilters : WithinFilter(sample, d))

\* 0-based position of the i-th threshold among M relevant samples: the sum
\* of the first i of the N almost equal parts of M + 1, larger parts first
PickPosition(i, M, N) ==
    LET q == (M + 1) \div N
        r == (M + 1) % N
    IN  i * q + (IF i <= r THEN i ELSE r)

\* C15 as stated: for the ordered samples S of length K (indexed from 0)
\* and N >= 2 subdivisions the i-th threshold, i = 1..N-1, is
\* S[floor(i * (K - 1) / N)], before deduplication.
C15_ThresholdsAtFloorPositions ==
    IsQuantileCase =>
        LET K == Len(GeneratorSamples)
            N == args.number_of_pages
        IN  IsPicksDeduplicated(
                generated.values,
                [i \in 1..(N - 1) |-> GeneratorSamples[(i * (K - 1)) \div N + 1]])

\* C15 amended: with R the samples but the first and the last, narrowed to
\* the interval of the existing filters, of length M (indexed from 0), and
\* q = floor((M + 1) / N), r = (M + 1) mod N, the i-th threshold is
\* R[i * q + min(i, r)] for the i of 1..N-1 whose position is below M,
\* before deduplication; without filters and with N dividing K - 1 that is
\* S[i * (K - 1) / N + 1].
C15_ThresholdsAtPartitionSums ==
    IsQuantileCase =>
        LET N == args.number_of_pages
            M == Len(RelevantSamples)
            within == {i \in 1..(N - 1) : PickPosition(i, M, N) < M}
        IN  /\ IsPicksDeduplicated(
                   generated.values,
                   [i \in 1..Cardinality(within) |->
                       RelevantSamples[PickPosition(i, M, N) + 1]])
            /\ (GeneratorFilters = {} /\ (Len(GeneratorSamples) - 1) % N = 0
                    /\ Cardinality(Range(GeneratorSamples)) = Len(GeneratorSamples)) =>
                   generated.values
                       = [i \in 1..(N - 1) |->
                             GeneratorSamples[
                                 (i * (Len(GeneratorSamples) - 1)) \div N + 2]]

\* test_parameter_value_generation_int: the samples 0..100 cut in 4 at the
\* root give 26 first, where the sample at floor(1 * 100 / 4) is 25
C15_Witness ==
    /\ IsQuantileCase
    /\ args.number_of_pages = test_number_of_subdivisions
    /\ args.query_path = <<"Species">>
    /\ GeneratorFilters = {}
    /\ Len(GeneratorSamples) = 101
    /\ GeneratorSamples[26] = 25
    /\ generated.values = <<26, 51, 76>>

\* the threshold of the call is not above a lower bound its input puts on
\* the pagination key: the page selects the empty interval
EmptyPageInterval ==
    \E x \in LowerFilters(query.query_ast) :
        ~less_than(FieldType(KeyField), query.parameters[x[2].value[1]],
                   args.threshold)

\* the remainder selects the rows its input selects
RemainderSelectsInput ==
    \A row \in SuccessiveRows : Selects(remainder, row) = Selects(query, row)

\* C16: a caller that keeps calling paginate_query on the remainder comes
\* to a call that returns its input unchanged, because every call that cuts
\* advances: no call returns an empty page interval (a threshold not above
\* the existing lower bound of its input) together with a remainder that
\* selects what its input selects, which would make the loop run forever.
C16_EveryCutAdvances ==
    PaginateSplit => ~(EmptyPageInterval /\ RemainderSelectsInput)
====
